---- MODULE Spec2Model ----
(***************************************************************************)
(* Model of twixread (src/src/twixread.c): conversion of a Siemens twix    *)
(* .dat file into a dense multidimensional array of complex samples.       *)
(*                                                                         *)
(* The program is sequential.  Its state is the input file (fixed during   *)
(* a run), the parsed options, main's locals, the file cursor, the record  *)
(* buffer and the output array.  One action models one straight-line       *)
(* stretch of the code up to the next read, seek or fatal error.           *)
(***************************************************************************)
EXTENDS Integers, Sequences, FiniteSets, TLC

VARIABLES
    file,       \* the input file: header words, length, openable, seekable
    dims,       \* long dims[DIMS] after option parsing
    aopt,       \* the -a option: whether given, and the integer atoi() returned
    pc,         \* position of the program
    adcs,       \* long adcs
    filepos,    \* cursor of ifd
    hdr,        \* struct hdr_s hdr
    vd,         \* bool vd
    start,      \* off_t start (siemens_meas_setup)
    out,        \* complex float* out (the mapped output container)
    buf,        \* the per-record block
    pos,        \* long pos[DIMS]
    scan_hdr,   \* metadata held by char scan_hdr[] (VD)
    mdh,        \* struct mdh2 mdh
    err,        \* message of the fatal error, "none" before
    finalized,  \* unmap_cfl has run
    fault,      \* history: first fault condition met on this run
    nrec,       \* history: records started
    lc0,        \* history: loop counters of the current record's channel 0
    hist,       \* history: one entry per placed record
    snap        \* history: out as it was after the last placement

vars == <<file, dims, aopt, pc, adcs, filepos, hdr, vd, start, out, buf, pos,
          scan_hdr, mdh, err, finalized, fault, nrec, lc0, hist, snap>>

----------------------------------------------------------------------------
(* Bounds of the explored inputs *)

MaxRead == 2
MaxCoil == 2
MaxExt == 2
MaxCells == 4
MaxAdcs == 2

(* Program constants *)

HdrSize == 24
VDOffsetLimit == 10000
VDScanLimit == 64
ScanHdrSizeVD == 192
ChanHdrSizeVD == 32
ChanHdrSizeVB == 128
CFL_SIZE == 8
NumLC == 14

----------------------------------------------------------------------------
(* Dimensions: the axes of DIMS the program touches; every other axis is   *)
(* a singleton with position 0 throughout.                                 *)

Axes == {"read", "phs1", "phs2", "coil", "te", "time", "time2", "slice"}

md_singleton_dims == [a \in Axes |-> 1]

ZeroPos == [a \in Axes |-> 0]

\* md_select_dims(DIMS, READ_FLAG|COIL_FLAG, adc_dims, dims)
md_select_dims(flags, d) == [a \in Axes |-> IF a \in flags THEN d[a] ELSE 1]

adc_dims == md_select_dims({"read", "coil"}, dims)

IndexSet(d) ==
    [read : 0..(d["read"] - 1), phs1 : 0..(d["phs1"] - 1),
     phs2 : 0..(d["phs2"] - 1), coil : 0..(d["coil"] - 1),
     te : 0..(d["te"] - 1), time : 0..(d["time"] - 1),
     time2 : 0..(d["time2"] - 1), slice : 0..(d["slice"] - 1)]

md_is_index(p, d) == \A a \in Axes : p[a] >= 0 /\ p[a] < d[a]

\* strided block copy of the idims-shaped block buf into o at offset p
md_copy_block(p, o, idims, b) ==
    LET Blk == IndexSet(idims)
        Lin(i) == i["read"] + idims["read"] * i["coil"]
        Tgt(i) == [a \in Axes |-> p[a] + i[a]]
    IN  [t \in (DOMAIN o) \cup {Tgt(i) : i \in Blk} |->
            IF \E i \in Blk : Tgt(i) = t
            THEN b[Lin(CHOOSE i \in Blk : Tgt(i) = t)]
            ELSE o[t]]

----------------------------------------------------------------------------
(* The input file *)

NoHdr == [none |-> TRUE]
NoMdh == [none |-> TRUE]
NoLC == [none |-> TRUE]

\* the 32-bit word at byte position p of the file (little-endian fields of
\* the leading header; file.word is the word at data_offset past the header)
FileWord(p) ==
    CASE p = 0 -> file.offset
      [] p = 4 -> file.nscans
      [] p = 8 -> file.measid
      [] p = 12 -> file.fileid
      [] OTHER -> file.word

FileHeader == [offset |-> file.offset, nscans |-> file.nscans,
               measid |-> file.measid, fileid |-> file.fileid,
               datoff |-> file.datoff]

Min(a, b) == IF a < b THEN a ELSE b
Max(a, b) == IF a > b THEN a ELSE b

\* bytes read(fd, buf, size) delivers at cursor p
ReadCount(p, size) == Min(size, Max(0, file.len - p))

\* the sample r of channel c of the k-th record of the file
Sample(k, c, r) == <<k, c, r>>

\* complex zero, and the content of memory never written
Zero == <<0, 0, 0>>
Uninit == <<>>

\* loop counters and centre fields carried by one metadata block
AuxKinds == {"none", "te", "time", "time2", "unused", "center"}

LoopCounters(a, b, c, x) ==
    [i \in 0..(NumLC - 1) |->
        CASE i = 0 -> a
          [] i = 2 -> b
          [] i = 3 -> c
          [] i = 4 -> IF x = "te" THEN 1 ELSE 0
          [] i = 6 -> IF x = "time" THEN 1 ELSE 0
          [] i = 7 -> IF x = "time2" THEN 1 ELSE 0
          [] OTHER -> IF x = "unused" THEN 1 ELSE 0]

Metadata(s, a, b, c, x) ==
    [samples |-> s, sLC |-> LoopCounters(a, b, c, x),
     linectr |-> IF x = "center" THEN 1 ELSE 0,
     partctr |-> IF x = "center" THEN 1 ELSE 0]

\* the metadata blocks a record may carry: counters 0, 2, 3 up to and
\* including the configured extent, a sample count around dims.read, and
\* one of the other fields set
MdhChoices ==
    LET R == dims["read"]
        Pick == {t \in {R - 1, R, R + 1} \X (0..dims["phs1"])
                         \X (0..dims["slice"]) \X (0..dims["phs2"]) \X AuxKinds :
                    /\ t[1] >= 0
                    /\ t[1] = R \/ t[5] = "none"
                    /\ t[5] = "none" \/ (/\ t[2] < dims["phs1"]
                                         /\ t[3] < dims["slice"]
                                         /\ t[4] < dims["phs2"])}
    IN  {Metadata(t[1], t[2], t[3], t[4], t[5]) : t \in Pick}

\* create_cfl: a new container of the given shape, all elements zero
create_cfl(d) == [i \in IndexSet(d) |-> Zero]

\* md_alloc: memory for a block of the given shape, contents indeterminate
md_alloc(d) == [i \in 0..(d["read"] * d["coil"] - 1) |-> Uninit]

----------------------------------------------------------------------------
(* Pure pieces of the code *)

\* variant: the byte count of read() is not compared with size
XreadUnchecked(p, size) == TRUE

\* xread: the read is complete
XreadOk(p, size) == ReadCount(p, size) = size

\* xseek: lseek succeeds
XseekOk(p) == file.seekable /\ p >= 0

\* variant: the scan count compared with <=
IsVDLoose(offset, nscans) == (offset < VDOffsetLimit) /\ (nscans <= VDScanLimit)

\* check for VD version
IsVD(offset, nscans) == (offset < VDOffsetLimit) /\ (nscans < VDScanLimit)

\* variant: offset taken relative to the cursor after the header reads
ScanStartFromCursor(base, cursor, h) == cursor + h.offset

\* start += hdr->offset
ScanStart(base, cursor, h) == base + h.offset

\* variant: a scan header is read for both layouts
ScanHdrSizeAlways(v) == ScanHdrSizeVD

\* char scan_hdr[vd ? 192 : 0]
ScanHdrSize(v) == IF v THEN ScanHdrSizeVD ELSE 0

\* char chan_hdr[vd ? 32 : 128]
ChanHdrSize(v) == IF v THEN ChanHdrSizeVD ELSE ChanHdrSizeVB

\* variant: the coordinate is taken from every channel's metadata
DeriveCoordEveryChannel(p, m) ==
    [p EXCEPT !["phs1"] = m.sLC[0],
              !["slice"] = m.sLC[2],
              !["phs2"] = m.sLC[3],
              !["te"] = m.sLC[4],
              !["time"] = m.sLC[6],
              !["time2"] = m.sLC[7]]

\* variant: the slice position taken from counter 3
DeriveCoordSliceFromPartition(p, m) ==
    IF 0 = p["coil"]
    THEN [p EXCEPT !["phs1"] = m.sLC[0],
                   !["slice"] = m.sLC[3],
                   !["phs2"] = m.sLC[3],
                   !["te"] = m.sLC[4],
                   !["time"] = m.sLC[6],
                   !["time2"] = m.sLC[7]]
    ELSE p

\* if (0 == pos[COIL_DIM]) { pos[...] = mdh.sLC[...]; }
DeriveCoord(p, m) ==
    IF 0 = p["coil"]
    THEN [p EXCEPT !["phs1"] = m.sLC[0],
                   !["slice"] = m.sLC[2],
                   !["phs2"] = m.sLC[3],
                   !["te"] = m.sLC[4],
                   !["time"] = m.sLC[6],
                   !["time2"] = m.sLC[7]]
    ELSE p

\* variant: only too few samples are refused
SamplesAtLeast(d, m) == d["read"] <= m.samples

\* if (dims[READ_DIM] != mdh.samples) error(...)
SamplesOk(d, m) == d["read"] = m.samples

\* variant: the assertion compiled out
AssertDisabled(p, d) == TRUE

\* assert(md_is_index(DIMS, pos, dims))
AssertIndex(p, d) == md_is_index(p, d)

\* variant: the channel's slice of the block starts at the channel index
BufOffsetNoStride(c, r) == c

\* buf + pos[COIL_DIM] * dims[READ_DIM]
BufOffset(c, r) == c * r

\* variant: the default record count leaves the slices out
DefaultAdcsNoSlice(a, d) == IF 0 = a THEN d["phs1"] * d["phs2"] ELSE a

\* if (0 == adcs) adcs = dims[PHS1_DIM] * dims[PHS2_DIM] * dims[SLICE_DIM]
DefaultAdcs(a, d) == IF 0 = a THEN d["phs1"] * d["phs2"] * d["slice"] ELSE a

\* while (adcs--)
LoopContinues(a) == a # 0

----------------------------------------------------------------------------
(* Initial states: the program after option parsing (main, getopt loop),   *)
(* for a sweep of leading headers and a sweep of record streams.           *)

NoAopt == [given |-> FALSE, value |-> 0]

AoptChoices == {NoAopt} \cup [given : {TRUE}, value : -1..MaxAdcs]

Options(d, a) ==
    /\ dims = d
    /\ aopt = a
    /\ adcs = IF a.given THEN a.value ELSE 0

DimChoices ==
    {d \in [Axes -> 1..Max(MaxRead, Max(MaxCoil, MaxExt))] :
        /\ d["te"] = 1 /\ d["time"] = 1 /\ d["time2"] = 1
        /\ d["read"] <= MaxRead /\ d["coil"] <= MaxCoil
        /\ d["phs1"] <= MaxExt /\ d["phs2"] <= MaxExt /\ d["slice"] <= MaxExt
        /\ d["read"] * d["coil"] * d["phs1"] * d["phs2"] * d["slice"] <= MaxCells}

HeaderSweep ==
    [openable : BOOLEAN, seekable : BOOLEAN,
     len : {0, 20, 24, 30, 20000},
     offset : {0, 9999, 10000}, nscans : {0, 63, 64},
     measid : {7}, fileid : {9},
     datoff : {0, 4, 24, 40}, word : {0, 10000}]

RecordSweep ==
    [openable : {TRUE}, seekable : {TRUE},
     len : {10400, 20000},
     offset : {32, 10000}, nscans : {1},
     measid : {7}, fileid : {9},
     datoff : {40}, word : {10000}]

Init ==
    /\ \/ /\ file \in HeaderSweep
          /\ Options(md_singleton_dims, NoAopt)
       \/ /\ file \in RecordSweep
          /\ \E d \in DimChoices, a \in AoptChoices : Options(d, a)
    /\ pc = "args"
    /\ filepos = 0
    /\ hdr = NoHdr
    /\ vd = FALSE
    /\ start = 0
    /\ out = <<>>
    /\ buf = <<>>
    /\ pos = ZeroPos
    /\ scan_hdr = NoMdh
    /\ mdh = NoMdh
    /\ err = "none"
    /\ finalized = FALSE
    /\ fault = "none"
    /\ nrec = 0
    /\ lc0 = NoLC
    /\ hist = <<>>
    /\ snap = <<>>

----------------------------------------------------------------------------
(* Actions *)

\* error(): print the message and terminate the process (the automatic
\* variable mdh of the loop body ends with it)
error(msg) == pc' = "error" /\ err' = msg

Fault(kind) == fault' = IF fault = "none" THEN kind ELSE fault

\* main: if (0 == adcs) adcs = ...
ComputeAdcs ==
    /\ pc = "args"
    /\ adcs' = DefaultAdcs(adcs, dims)
    /\ pc' = "open"
    /\ UNCHANGED <<file, dims, aopt, filepos, hdr, vd, start, out, buf, pos,
                   scan_hdr, mdh, err, finalized, fault, nrec, lc0, hist, snap>>

\* main: open(argv[optind + 0], O_RDONLY)
OpenInput ==
    /\ pc = "open"
    /\ IF file.openable
       THEN pc' = "setup" /\ UNCHANGED <<err, fault>>
       ELSE error("error opening file.") /\ Fault("open")
    /\ UNCHANGED <<file, dims, aopt, adcs, filepos, hdr, vd, start, out, buf,
                   pos, scan_hdr, mdh, finalized, nrec, lc0, hist, snap>>

\* siemens_meas_setup: seek to 0 and read the leading header
SetupReadHeader ==
    /\ pc = "setup"
    /\ start' = 0
    /\ IF ~XseekOk(0)
       THEN error("seeking") /\ UNCHANGED <<filepos, hdr>>
       ELSE IF ~XreadOk(0, HdrSize)
       THEN error("reading file") /\ filepos' = ReadCount(0, HdrSize)
            /\ UNCHANGED hdr
       ELSE pc' = "detect" /\ filepos' = HdrSize /\ hdr' = FileHeader
            /\ UNCHANGED err
    /\ IF ~file.seekable THEN Fault("seek")
       ELSE IF ReadCount(0, HdrSize) < HdrSize THEN Fault("short read")
       ELSE UNCHANGED fault
    /\ UNCHANGED <<file, dims, aopt, adcs, vd, out, buf, pos, scan_hdr, mdh,
                   finalized, nrec, lc0, hist, snap>>

\* siemens_meas_setup: decide the layout; VD re-reads offset at datoff
SetupDetect ==
    /\ pc = "detect"
    /\ LET v == IsVD(hdr.offset, hdr.nscans)
           s == start + hdr.datoff
       IN  /\ vd' = v
           /\ IF v
              THEN /\ start' = s
                   /\ IF ~XseekOk(s)
                      THEN error("seeking") /\ UNCHANGED <<filepos, hdr>>
                      ELSE IF ~XreadOk(s, 4)
                      THEN error("reading file")
                           /\ filepos' = s + ReadCount(s, 4)
                           /\ UNCHANGED hdr
                      ELSE /\ pc' = "seek_start"
                           /\ filepos' = s + 4
                           /\ hdr' = [hdr EXCEPT !.offset = FileWord(s)]
                           /\ UNCHANGED err
                   /\ IF ReadCount(s, 4) < 4 THEN Fault("short read")
                      ELSE UNCHANGED fault
              ELSE /\ hdr' = [hdr EXCEPT !.nscans = 1]
                   /\ pc' = "seek_start"
                   /\ UNCHANGED <<start, filepos, err, fault>>
    /\ UNCHANGED <<file, dims, aopt, adcs, out, buf, pos, scan_hdr, mdh,
                   finalized, nrec, lc0, hist, snap>>

\* siemens_meas_setup: seek to the first scan and return vd
SetupSeek ==
    /\ pc = "seek_start"
    /\ LET s == ScanStart(start, filepos, hdr)
       IN  /\ start' = s
           /\ IF ~XseekOk(s)
              THEN error("seeking") /\ Fault("seek") /\ UNCHANGED filepos
              ELSE pc' = "create" /\ filepos' = s /\ UNCHANGED <<err, fault>>
    /\ UNCHANGED <<file, dims, aopt, adcs, hdr, vd, out, buf, pos, scan_hdr,
                   mdh, finalized, nrec, lc0, hist, snap>>

\* main: create_cfl, md_select_dims, md_alloc
CreateOutput ==
    /\ pc = "create"
    /\ out' = create_cfl(dims)
    /\ buf' = md_alloc(adc_dims)
    /\ snap' = out'
    /\ pc' = "loop"
    /\ UNCHANGED <<file, dims, aopt, adcs, filepos, hdr, vd, start, pos,
                   scan_hdr, mdh, err, finalized, fault, nrec, lc0, hist>>

\* main: while (adcs--) { long pos[DIMS] = { 0 }; ...
LoopTest ==
    /\ pc = "loop"
    /\ adcs' = adcs - 1
    /\ IF LoopContinues(adcs)
       THEN /\ nrec <= MaxAdcs
            /\ pc' = "scan_hdr"
            /\ nrec' = nrec + 1
       ELSE /\ pc' = "finalize"
            /\ UNCHANGED nrec
    /\ pos' = ZeroPos
    /\ UNCHANGED <<file, dims, aopt, filepos, hdr, vd, start, out, buf,
                   scan_hdr, mdh, err, finalized, fault, lc0, hist, snap>>

\* siemens_adc_read: read the scan header, enter the channel loop
ReadScanHdr ==
    /\ pc = "scan_hdr"
    /\ LET size == ScanHdrSize(vd)
       IN  IF ~XreadOk(filepos, size)
           THEN /\ error("reading file")
                /\ filepos' = filepos + ReadCount(filepos, size)
                /\ UNCHANGED <<scan_hdr, pos>>
           ELSE /\ filepos' = filepos + size
                /\ IF vd THEN scan_hdr' \in MdhChoices ELSE scan_hdr' = NoMdh
                /\ pos' = [pos EXCEPT !["coil"] = 0]
                /\ pc' = IF 0 < dims["coil"] THEN "chan_hdr" ELSE "copy"
                /\ UNCHANGED err
    /\ IF ReadCount(filepos, ScanHdrSize(vd)) < ScanHdrSize(vd)
       THEN Fault("short read")
       ELSE UNCHANGED fault
    /\ UNCHANGED <<file, dims, aopt, adcs, hdr, vd, start, out, buf, mdh,
                   finalized, nrec, lc0, hist, snap>>

\* siemens_adc_read: read one channel header, decode the metadata, derive
\* the coordinate on the first channel, check sample count and index
ReadChanHdr ==
    /\ pc = "chan_hdr"
    /\ LET size == ChanHdrSize(vd)
           short == ReadCount(filepos, size) < size
       IN  IF ~XreadOk(filepos, size)
           THEN /\ error("reading file")
                /\ filepos' = filepos + ReadCount(filepos, size)
                /\ IF short THEN Fault("short read") ELSE UNCHANGED fault
                /\ UNCHANGED <<mdh, pos, lc0>>
           ELSE /\ filepos' = filepos + size
                /\ \E m \in (IF vd THEN {scan_hdr} ELSE MdhChoices) :
                     LET p == DeriveCoord(pos, m)
                     IN  /\ pos' = p
                         /\ lc0' = IF pos["coil"] = 0 THEN m.sLC ELSE lc0
                         /\ IF ~SamplesOk(dims, m)
                            THEN error("wrong number of samples")
                                 /\ mdh' = NoMdh
                            ELSE IF ~AssertIndex(p, dims)
                            THEN error("assertion failed") /\ mdh' = NoMdh
                            ELSE /\ pc' = "read_samples"
                                 /\ mdh' = m
                                 /\ UNCHANGED err
                         /\ IF short THEN Fault("short read")
                            ELSE IF m.samples # dims["read"]
                            THEN Fault("samples")
                            ELSE IF ~md_is_index(p, dims) THEN Fault("index")
                            ELSE UNCHANGED fault
    /\ UNCHANGED <<file, dims, aopt, adcs, hdr, vd, start, out, buf, scan_hdr,
                   finalized, nrec, hist, snap>>

\* siemens_adc_read: read the channel's samples into its slice of the block,
\* advance the channel loop; after the last channel reset pos[COIL_DIM]
ReadSamples ==
    /\ pc = "read_samples"
    /\ LET size == dims["read"] * CFL_SIZE
           got == ReadCount(filepos, size)
           off == BufOffset(pos["coil"], dims["read"])
           Filled(n) ==
               [i \in (DOMAIN buf) \cup (off..(off + n - 1)) |->
                   IF i >= off /\ i < off + n
                   THEN Sample(nrec, pos["coil"], i - off)
                   ELSE buf[i]]
       IN  /\ filepos' = filepos + got
           /\ IF ~XreadOk(filepos, size)
              THEN /\ error("reading file")
                   /\ buf' = Filled(got \div CFL_SIZE)
                   /\ UNCHANGED <<pos, mdh, scan_hdr>>
              ELSE /\ buf' = Filled(dims["read"])
                   /\ mdh' = NoMdh
                   /\ IF pos["coil"] + 1 < dims["coil"]
                      THEN /\ pos' = [pos EXCEPT !["coil"] = pos["coil"] + 1]
                           /\ pc' = "chan_hdr"
                           /\ UNCHANGED scan_hdr
                      ELSE /\ pos' = [pos EXCEPT !["coil"] = 0]
                           /\ pc' = "copy"
                           /\ scan_hdr' = NoMdh
                   /\ UNCHANGED err
           /\ IF got < size THEN Fault("short read") ELSE UNCHANGED fault
    /\ UNCHANGED <<file, dims, aopt, adcs, hdr, vd, start, out, finalized,
                   nrec, lc0, hist, snap>>

\* the coordinate a record has by its first channel's loop counters
CoordOfCounters(lc) ==
    [phs1 |-> lc[0], slice |-> lc[2], phs2 |-> lc[3],
     te |-> lc[4], time |-> lc[6], time2 |-> lc[7]]

\* main: md_copy_block(DIMS, pos, dims, out, adc_dims, buf, CFL_SIZE)
CopyBlock ==
    /\ pc = "copy"
    /\ out' = md_copy_block(pos, out, adc_dims, buf)
    /\ snap' = out'
    /\ hist' = Append(hist,
                 [coord |-> CoordOfCounters(lc0),
                  pos |-> pos,
                  block |-> buf,
                  written |-> {i \in DOMAIN out' :
                                 i \notin DOMAIN out \/ out'[i] # out[i]}])
    /\ lc0' = NoLC
    /\ pos' = ZeroPos
    /\ pc' = "loop"
    /\ UNCHANGED <<file, dims, aopt, adcs, filepos, hdr, vd, start, buf,
                   scan_hdr, mdh, err, finalized, fault, nrec>>

\* main: md_free(buf); unmap_cfl(DIMS, dims, out); exit(0)
Finalize ==
    /\ pc = "finalize"
    /\ finalized' = TRUE
    /\ pc' = "done"
    /\ UNCHANGED <<file, dims, aopt, adcs, filepos, hdr, vd, start, out, buf,
                   pos, scan_hdr, mdh, err, fault, nrec, lc0, hist, snap>>

Next ==
    \/ ComputeAdcs
    \/ OpenInput
    \/ SetupReadHeader
    \/ SetupDetect
    \/ SetupSeek
    \/ CreateOutput
    \/ LoopTest
    \/ ReadScanHdr
    \/ ReadChanHdr
    \/ ReadSamples
    \/ CopyBlock
    \/ Finalize

Spec == Init /\ [][Next]_vars

----------------------------------------------------------------------------
(* Definitions shared by the properties *)

CoordAxes == {"phs1", "slice", "phs2", "te", "time", "time2"}

\* the output index a coordinate, a read index and a channel index name
ClaimIndex(coord, r, c) ==
    [read |-> r, coil |-> c, phs1 |-> coord.phs1, slice |-> coord.slice,
     phs2 |-> coord.phs2, te |-> coord.te, time |-> coord.time,
     time2 |-> coord.time2]

\* the record count the driver works with: the -a value unless it is absent
\* or 0, and then the product of the phase1, phase2 and slice extents
EffectiveAdcs ==
    IF aopt.given /\ aopt.value # 0
    THEN aopt.value
    ELSE dims["phs1"] * dims["phs2"] * dims["slice"]

\* bytes of one record
RecordSize ==
    (IF vd THEN 192 ELSE 0)
    + dims["coil"] * ((IF vd THEN 32 ELSE 128) + 8 * dims["read"])

InRecords == {"loop", "scan_hdr", "chan_hdr", "read_samples", "copy",
              "finalize", "done"}

----------------------------------------------------------------------------
(* C1: the layout is VD exactly when the offset and scan_count first read  *)
(* at byte 0 satisfy offset < 10000 and scan_count < 64, whatever the VD   *)
(* re-read of offset delivers; for VB scan_count becomes 1 and offset is   *)
(* kept; for VD only offset changes, to the word at data_offset.           *)
C1_HeaderDetection ==
    pc \in {"seek_start", "create"} \cup InRecords =>
        /\ vd <=> (file.offset < 10000 /\ file.nscans < 64)
        /\ vd => hdr = [offset |-> FileWord(file.datoff),
                        nscans |-> file.nscans, measid |-> file.measid,
                        fileid |-> file.fileid, datoff |-> file.datoff]
        /\ ~vd => hdr = [offset |-> file.offset, nscans |-> 1,
                         measid |-> file.measid, fileid |-> file.fileid,
                         datoff |-> file.datoff]

C1_Witness ==
    /\ pc = "create"
    /\ vd
    /\ file.offset < 10000
    /\ hdr.offset >= 10000

(* C2: after a successful header detection the cursor is at the leading    *)
(* header's offset for VB, and at data_offset plus the offset re-read at   *)
(* data_offset for VD, however many bytes the header reads consumed.       *)
C2_FirstScanPosition ==
    pc = "create" =>
        filepos = IF file.offset < 10000 /\ file.nscans < 64
                  THEN file.datoff + FileWord(file.datoff)
                  ELSE file.offset

C2_Witness ==
    /\ pc = "create"
    /\ vd
    /\ file.datoff >= 24
    /\ hdr.offset > 0
    /\ filepos = file.datoff + hdr.offset

(* C3: a channel whose metadata has a sample count different from          *)
(* dims.read ends the conversion in the fatal error "wrong number of       *)
(* samples"; no samples are read for it, and the output holds exactly what *)
(* it held after the last placed record: no element of the failing record. *)
C3_SampleCountMismatchFatal ==
    /\ pc = "read_samples" => mdh.samples = dims["read"]
    /\ fault = "samples" =>
          /\ pc = "error"
          /\ err = "wrong number of samples"
          /\ out = snap
          /\ Len(hist) = nrec - 1
          /\ \A i \in DOMAIN out : out[i][1] < nrec

C3_Witness ==
    /\ fault = "samples"
    /\ pc = "error"
    /\ pos["coil"] = 1
    /\ Len(hist) >= 1

(* C4 as stated: at successful completion every record's samples are in   *)
(* the output at the record's coordinate, block[c*R + r] at (read r,       *)
(* coil c), and every element no record addresses is zero.                 *)
C4_RoundTripEveryRecord ==
    pc = "done" =>
        /\ \A k \in 1..Len(hist) :
             \A c \in 0..(dims["coil"] - 1), r \in 0..(dims["read"] - 1) :
                /\ ClaimIndex(hist[k].coord, r, c) \in DOMAIN out
                /\ out[ClaimIndex(hist[k].coord, r, c)] = Sample(k, c, r)
        /\ \A i \in DOMAIN out :
             (\A k \in 1..Len(hist) :
                 \E a \in CoordAxes : i[a] # hist[k].coord[a])
             => out[i] = Zero

(* C4 amended: the same for every record whose coordinate no later record  *)
(* of the conversion has; a later record with the same coordinate replaces *)
(* the earlier one.                                                        *)
C4_RoundTripLastWriter ==
    pc = "done" =>
        /\ \A k \in 1..Len(hist) :
             (\A j \in (k + 1)..Len(hist) : hist[j].coord # hist[k].coord)
             => \A c \in 0..(dims["coil"] - 1), r \in 0..(dims["read"] - 1) :
                   /\ ClaimIndex(hist[k].coord, r, c) \in DOMAIN out
                   /\ out[ClaimIndex(hist[k].coord, r, c)] = Sample(k, c, r)
        /\ \A i \in DOMAIN out :
             (\A k \in 1..Len(hist) :
                 \E a \in CoordAxes : i[a] # hist[k].coord[a])
             => out[i] = Zero

C4_Witness ==
    /\ pc = "done"
    /\ Len(hist) = 2
    /\ dims["coil"] = 2
    /\ hist[1].coord # hist[2].coord
    /\ \E i \in DOMAIN out : out[i] = Sample(1, 1, 0)

(* C5: the coordinate of a record is the one given by counters 0, 2, 3, 4, *)
(* 6 and 7 of its first channel's metadata: the counters of later channel  *)
(* headers, the other counters and the centre fields do not enter it.      *)
C5_CoordinateFromFirstChannel ==
    (pc \in {"read_samples", "copy"} \/ (pc = "chan_hdr" /\ pos["coil"] >= 1))
    => /\ pos["phs1"] = lc0[0]
       /\ pos["slice"] = lc0[2]
       /\ pos["phs2"] = lc0[3]
       /\ pos["te"] = lc0[4]
       /\ pos["time"] = lc0[6]
       /\ pos["time2"] = lc0[7]
       /\ pos["read"] = 0

C5_Witness ==
    /\ pc = "read_samples"
    /\ ~vd
    /\ pos["coil"] = 1
    /\ mdh.sLC[0] # lc0[0]
    /\ mdh.sLC[1] # lc0[1]

(* C6: a record whose counters 0, 2, 3, 4, 6, 7 are not an index of the    *)
(* configured shape aborts the conversion before any of its samples is     *)
(* read; every placement writes inside the configured shape and the        *)
(* coordinate is used as read, never clamped or wrapped.                   *)
C6_OutOfBoundsAborts ==
    /\ pc \in {"read_samples", "copy"} =>
          /\ lc0[0] < dims["phs1"] /\ lc0[2] < dims["slice"]
          /\ lc0[3] < dims["phs2"]
          /\ lc0[4] < 1 /\ lc0[6] < 1 /\ lc0[7] < 1
          /\ \A a \in Axes : pos[a] >= 0 /\ pos[a] < dims[a]
    /\ DOMAIN out # {} => DOMAIN out = IndexSet(dims)
    /\ \A k \in 1..Len(hist) : hist[k].written \subseteq IndexSet(dims)
    /\ fault = "index" =>
          /\ pc = "error"
          /\ out = snap
          /\ \A i \in DOMAIN buf : buf[i] = Uninit \/ buf[i][1] < nrec

C6_Witness ==
    /\ fault = "index"
    /\ pc = "error"
    /\ Len(hist) >= 1
    /\ pos["slice"] >= dims["slice"]

(* C7 as stated: at successful termination the number of (read, place)     *)
(* pairs run is the -a value whenever -a was supplied, 0 included.         *)
C7_ExactlySuppliedCount ==
    pc = "done" =>
        Len(hist) = IF aopt.given
                    THEN aopt.value
                    ELSE dims["phs1"] * dims["phs2"] * dims["slice"]

(* C7 amended: the pair runs exactly adc_count times before the output is  *)
(* finalized, adc_count being the -a value when it is positive and the     *)
(* product phase1 * phase2 * slice when -a is absent or 0; the loop never  *)
(* starts more than adc_count records and never finalizes with fewer; a    *)
(* negative -a value never leads to a successful end.                      *)
C7_ExactlyAdcCount ==
    /\ pc \in {"finalize", "done"} =>
          /\ Len(hist) = EffectiveAdcs
          /\ nrec = EffectiveAdcs
    /\ (pc \in InRecords /\ EffectiveAdcs >= 0) => nrec <= EffectiveAdcs
    /\ pc \in {"loop", "scan_hdr", "chan_hdr", "read_samples", "copy"} =>
          adcs + nrec = EffectiveAdcs

C7_Witness ==
    /\ pc = "done"
    /\ aopt.given
    /\ aopt.value = 0
    /\ Len(hist) = 2
    /\ dims["slice"] = 2

(* C8: the scan header takes 0 bytes for VB and 192 for VD, and every      *)
(* record read advances the cursor by scan header + coil * (channel header *)
(* + 8 * read) bytes, channel header 32 for VD and 128 for VB, so that the *)
(* records are read back to back from the first scan position.             *)
C8_StreamConsumption ==
    /\ (pc = "chan_hdr" /\ pos["coil"] = 0) =>
          filepos = start + (nrec - 1) * RecordSize + (IF vd THEN 192 ELSE 0)
    /\ pc = "copy" => filepos = start + nrec * RecordSize
    /\ pc \in {"loop", "scan_hdr", "finalize", "done"} =>
          filepos = start + Len(hist) * RecordSize

C8_Witness ==
    /\ pc = "chan_hdr"
    /\ ~vd
    /\ pos["coil"] = 0
    /\ nrec = 2
    /\ filepos = start + RecordSize

(* C9: once a fault has occurred (unopenable input, failed seek, short     *)
(* read, sample-count mismatch, coordinate out of bounds) the program is   *)
(* in its fatal error and the output is never finalized; the output is     *)
(* finalized only after all adc_count records are read and placed; an      *)
(* error before the first record finds no output container created.        *)
C9_NoPartialFinalize ==
    /\ fault # "none" => (pc = "error" /\ err # "none" /\ ~finalized)
    /\ pc = "error" => (fault # "none" /\ ~finalized /\ ~ENABLED Next)
    /\ finalized =>
          /\ pc = "done"
          /\ fault = "none"
          /\ err = "none"
          /\ Len(hist) = EffectiveAdcs
    /\ (pc = "error" /\ nrec = 0) => DOMAIN out = {}

C9_Witness ==
    /\ pc = "error"
    /\ fault = "short read"
    /\ Len(hist) >= 1
    /\ DOMAIN out # {}
    /\ ~finalized

(* C10 as stated: any two different records of a conversion write disjoint *)
(* sets of output elements.                                                *)
C10_DisjointPlacements ==
    \A i, j \in 1..Len(hist) :
        i # j => hist[i].written \cap hist[j].written = {}

\* the output after placing the blocks of hist in the order perm
RECURSIVE Replay(_, _)
Replay(perm, n) ==
    IF n = 0
    THEN create_cfl(dims)
    ELSE md_copy_block(hist[perm[n]].pos, Replay(perm, n - 1), adc_dims,
                       hist[perm[n]].block)

PlacementOrders(n) ==
    {f \in [1..n -> 1..n] : \A a, b \in 1..n : f[a] = f[b] => a = b}

(* C10 amended: two records whose derived coordinates differ write         *)
(* disjoint sets of output elements, and when the coordinates of a         *)
(* conversion are pairwise different the final output is the same for      *)
(* every order of placing the blocks.                                      *)
C10_DisjointWhenCoordsDiffer ==
    /\ \A i, j \in 1..Len(hist) :
          hist[i].coord # hist[j].coord =>
              hist[i].written \cap hist[j].written = {}
    /\ (/\ pc = "done"
        /\ \A i, j \in 1..Len(hist) : i # j => hist[i].coord # hist[j].coord)
       => \A f \in PlacementOrders(Len(hist)) : Replay(f, Len(hist)) = out

C10_Witness ==
    /\ pc = "done"
    /\ Len(hist) = 2
    /\ hist[1].coord # hist[2].coord
    /\ hist[1].written # {}
    /\ hist[1].written \cap hist[2].written = {}

====
